---- MODULE Spec2Model ----
(***************************************************************************)
(* Modbus RTU slave of SimpleModbusSlave: the frame receiver (receive),    *)
(* the dispatcher (reply) and the polling cycle (SimpleModbusSlave::loop), *)
(* together with the serial line they read from and write to.              *)
(*                                                                         *)
(* The serial line is two queues: wire holds the bytes the bus master has  *)
(* sent that have not reached the UART yet, rx is the UART receive buffer  *)
(* (what Serial2.available() / Serial2.read() see).  The station's code is *)
(* cut at its polls of Serial2.available(): between two polls bytes may    *)
(* arrive (Arrive), everything else of a handler is one atomic step.       *)
(*                                                                         *)
(* Integer widths are those of the sources: uint8_t counters wrap at 256,  *)
(* uint16_t values at 65536, int is 32 bits (the ESP32 target of           *)
(* examples/SimpleModbusSlave/HW_Rev1.h).                                  *)
(***************************************************************************)
EXTENDS Integers, Sequences, FiniteSets, TLC

---------------------------------------------------------------------------
(* Program constants *)

_MODBUS_RTU_SLAVE == 0
_MODBUS_RTU_FUNCTION == 1
_MODBUS_RTU_PRESET_RSP_LENGTH == 2
_MODBUS_RTU_CHECKSUM_LENGTH == 2
_MODBUSINO_RTU_MAX_ADU_LENGTH == 256
_FC_READ_HOLDING_REGISTERS == 3
_FC_WRITE_MULTIPLE_REGISTERS == 16
_STEP_FUNCTION == 1
_STEP_META == 2
_STEP_DATA == 3
MODBUS_BROADCAST_ADDRESS == 0
MODBUS_EXCEPTION_ILLEGAL_FUNCTION == 1
MODBUS_EXCEPTION_ILLEGAL_DATA_ADDRESS == 2
MODBUS_EXCEPTION_ILLEGAL_DATA_VALUE == 3
\* The two informative codes are used by receive but defined in no file of
\* src/; their values are those of the status list at the end of loop
\* (-6 = -1 - NOT_FOR_US, -7 = -1 - RX_TIMEOUT).
MODBUS_INFORMATIVE_NOT_FOR_US == 5
MODBUS_INFORMATIVE_RX_TIMEOUT == 6
\* receive: "if (++i == 10) return": polls of one per-byte wait
RX_POLL_LIMIT == 10
\* flush: "i++ < 10": iterations of the line flush
FLUSH_LIMIT == 10

---------------------------------------------------------------------------
(* Bounds of the model *)

\* frames the bus master sends in one run
MaxFrames == 1
\* further frames it sends in the runs of SpecSeq
MaxRetries == 1
\* a frame's last MaxSlow bytes may arrive one at a time; what precedes
\* them arrives in one burst
MaxSlow == 3

\* station identities the constructor is given
Stations == {5}
\* identities the constructor accepts (0..247): the ends of the range, the
\* broadcast address itself and the identities of Stations
StationIds == {0, 247} \cup Stations
\* an address of another station on the bus
ForeignAddress(id) == id + 2
\* bytes of line noise that may sit unread in the UART at one time
MaxNoise == 2
\* responses after which the line noise ends
MaxSent == 2
\* values of the bytes of line noise
NoiseBytes == {0}
\* sizes of the caller's register table (nb_reg)
NbRegs == {8, 128}
\* what an uninitialised or out-of-bounds byte may read as
JunkBytes == {0}

Byte == 0..255

---------------------------------------------------------------------------
(* Integer helpers *)

Min(a, b) == IF a < b THEN a ELSE b

\* uint8_t / uint16_t conversion
U8(x) == x % 256
U16(x) == x % 65536

RECURSIVE Xor(_, _)
Xor(a, b) == IF a = 0 THEN b ELSE IF b = 0 THEN a
             ELSE ((a + b) % 2) + 2 * Xor(a \div 2, b \div 2)

\* x | 0x80 on a byte
OrHighBit(x) == IF x >= 128 THEN x ELSE x + 128

\* the bytes s[1..n] of a sequence or of a buffer indexed from 0
Take(s, n) == [k \in 1..n |-> s[k]]
BufTake(buf, n) == [k \in 1..n |-> buf[k - 1]]

---------------------------------------------------------------------------
(* Checksum gate: CRC-16/MODBUS (crc16, add_crc16), not part of src/ *)

RECURSIVE CrcShift(_, _)
CrcShift(c, k) == IF k = 0 THEN c
                  ELSE CrcShift(IF c % 2 = 1 THEN Xor(c \div 2, 40961) ELSE c \div 2, k - 1)

CrcTable == [b \in Byte |-> CrcShift(b, 8)]

\* one byte folded into the running checksum
CrcStep(c, b) == Xor(c \div 256, CrcTable[Xor(c % 256, b)])

\* the element of a one-element set
Only(S) == CHOOSE x \in S : TRUE

\* the bytes s[lo..hi] folded into c, left to right.  The left half is
\* bound as a value (l) before the right half is entered, which keeps the
\* evaluation depth logarithmic in the length.
RECURSIVE CrcRange(_, _, _, _)
CrcRange(c, s, lo, hi) ==
    IF lo > hi THEN c
    ELSE IF lo = hi THEN CrcStep(c, s[lo])
    ELSE Only({CrcRange(l, s, (lo + hi) \div 2 + 1, hi) :
                  l \in {CrcRange(c, s, lo, (lo + hi) \div 2)}})

\* crc16(msg, msg_length): 0 exactly when msg ends with its own checksum
crc16(s) == Only({CrcRange(65535, t, 1, Len(t)) : t \in {s}})

\* the two bytes add_crc16 appends: low byte first
CrcBytes(s) == <<crc16(s) % 256, crc16(s) \div 256>>

add_crc16(s) == s \o CrcBytes(s)

---------------------------------------------------------------------------
(* Frames the bus master puts on the line (section 6 wire format) *)

Hi(x) == x \div 256
Lo(x) == x % 256

\* register values the caller's table starts with: high and low byte differ
TabInit(n) == [r \in 0..(n - 1) |-> 256 * ((r + 1) % 256) + (255 - (r % 256))]

\* n payload bytes
Data(n) == [k \in 1..n |-> (17 * k + 3) % 256]

ReadReq(a, start, count) ==
    add_crc16(<<a, _FC_READ_HOLDING_REGISTERS, Hi(start), Lo(start), Hi(count), Lo(count)>>)

WriteReq(a, start, count, bc, data) ==
    add_crc16(<<a, _FC_WRITE_MULTIPLE_REGISTERS, Hi(start), Lo(start), Hi(count), Lo(count), bc>>
              \o data)

\* a frame with its last checksum byte changed
Corrupt(f) == [f EXCEPT ![Len(f)] = (f[Len(f)] + 1) % 256]

FramesFor(id) ==
    { ReadReq(id, 10, 2),                       \* the scenario of section 8
      ReadReq(id, 0, 127),                      \* 254 data bytes
      ReadReq(id, 65535, 2),                    \* start + count over 16 bits
      ReadReq(MODBUS_BROADCAST_ADDRESS, 2, 1),
      WriteReq(ForeignAddress(id), 0, 1, 2, <<0, 0>>),
      WriteReq(id, 1, 2, 4, <<18, 52, 171, 205>>),
      WriteReq(id, 0, 2, 0, <<>>),              \* count without its data
      WriteReq(id, 0, 125, 0, <<>>),
      WriteReq(id, 6, 3, 6, Data(6)),
      WriteReq(id, 0, 123, 246, Data(246)),     \* 255 bytes in total
      WriteReq(id, 3, 1, 247, Data(247)),       \* 256 bytes in total
      WriteReq(id, 0, 1, 250, Data(2)),         \* announces 259 bytes
      Corrupt(ReadReq(id, 10, 2)),
      Corrupt(WriteReq(id, 1, 2, 4, <<18, 52, 171, 205>>)),
      Corrupt(add_crc16(<<id, 153, 1, 2>>)),    \* function 0x99
      add_crc16(<<id, 17, 1, 2>>) }             \* function 0x11

FrameMenu == [id \in Stations |-> FramesFor(id)]

\* requests addressed to broadcast and the same requests addressed to id
AddressMenu ==
    [id \in StationIds |->
        UNION {{ ReadReq(a, 2, 1),
                 WriteReq(a, 1, 2, 4, <<18, 52, 171, 205>>),
                 WriteReq(a, 7, 2, 4, <<18, 52, 171, 205>>),
                 add_crc16(<<a, 17, 1, 2>>) } : a \in {MODBUS_BROADCAST_ADDRESS, id}}]

\* values of the byte-count field of a write request: both ends of the range
\* and both sides of the largest one that fits an ADU (247)
ByteCounts == {0, 2, 247, 248, 253, 254, 255}

\* write requests of one register carrying each of these byte counts
CountMenu ==
    [id \in Stations |-> {WriteReq(id, 0, 1, bc, Data(bc)) : bc \in ByteCounts}]

\* frames addressed to other stations, with supported and unsupported
\* function codes, and an oversized write header
ForeignMenu ==
    [id \in Stations |->
        UNION {{ ReadReq(a, 2, 1),
                 WriteReq(a, 1, 2, 4, <<18, 52, 171, 205>>),
                 WriteReq(a, 0, 1, 250, Data(2)),
                 add_crc16(<<a, 17, 1, 2>>),
                 add_crc16(<<a, 153, 1, 2>>),
                 Corrupt(ReadReq(a, 2, 1)) } : a \in {ForeignAddress(id), 255}}]

\* the frames the master sends on a line that may be saturated
LiveMenu ==
    [id \in Stations |->
        { ReadReq(id, 10, 2),
          WriteReq(ForeignAddress(id), 0, 1, 2, <<0, 0>>),
          WriteReq(id, 1, 2, 4, <<18, 52, 171, 205>>),
          WriteReq(id, 0, 1, 250, Data(2)),
          add_crc16(<<id, 17, 1, 2>>) }]

\* total length a request announces: 8 for a read, 9 + byte count for a write
DeclaredLength(f) ==
    IF Len(f) >= 2 /\ f[2] = _FC_READ_HOLDING_REGISTERS THEN 8
    ELSE IF Len(f) >= 7 /\ f[2] = _FC_WRITE_MULTIPLE_REGISTERS THEN 9 + f[7]
    ELSE 0

---------------------------------------------------------------------------
(* State *)

VARIABLES
    wire,            \* bytes sent by the master, not yet in the UART
    rx,              \* UART receive buffer (Serial2)
    pc,              \* "idle" | "recv" | "flush": where the station's code is
    step,            \* receive: step
    length_to_read,  \* receive: length_to_read (uint8_t)
    req_index,       \* receive: req_index (uint8_t)
    function,        \* receive: function (uint8_t)
    i,               \* receive: i, polls of the current per-byte wait
    fi,              \* flush: i
    flushCtx,        \* which call of flush is running: "nfu" | "fn" | "dv"
    req,             \* loop: req[256]
    tab_reg,         \* the caller's register table
    nb_reg,          \* its declared size
    _slave,          \* station identity
    rc,              \* status returned by the last call of loop
    sent,            \* frames written to the line by the current cycle
    outcome,         \* how the current cycle ended
    disp,            \* what reply did in the current cycle
    nread,           \* bytes read from the UART by the current cycle
    tabBefore,       \* tab_reg when the current cycle began
    ghost,           \* offsets of req still holding bytes of a timed-out frame
    nFrames,         \* frames sent by the master so far
    lastFrame,       \* the last of them
    foreignOnly,     \* all of them were addressed to another station
    cycleNo,         \* cycles that read bytes since the last of them was sent (0, 1, 2 = more)
    sentTotal,       \* frames written to the line so far
    de,              \* level last written to the driver-enable pin (_pin_DE)
    io               \* calls made on the pin and the transport by the current cycle

vars == <<wire, rx, pc, step, length_to_read, req_index, function, i, fi, flushCtx,
          req, tab_reg, nb_reg, _slave, rc, sent, outcome, disp, nread, tabBefore,
          ghost, nFrames, lastFrame, foreignOnly, cycleNo, sentTotal, de, io>>

recvVars == <<step, length_to_read, req_index, function, i, fi, flushCtx>>
masterVars == <<nFrames, lastFrame, foreignOnly>>

cycleVars == <<rc, sent, outcome, disp, nread, tabBefore, sentTotal, de, io>>

NoDisp == [run |-> FALSE, slave |-> 0, function |-> 0, address |-> 0, nb |-> 0,
           tabReads |-> {}, tabWrites |-> {}, reqReads |-> {}, oob |-> FALSE]

\* outcomes of undefined behaviour: intact = memory read outside an object
\* or before its initialisation holds what was last stored there; otherwise
\* it reads as junk
UbOutcomes == [intact : BOOLEAN, junk : JunkBytes]

\* SimpleModbusSlave::SimpleModbusSlave, with an identity in 0..247 taken from ids
InitFor(ids) ==
    /\ _slave \in ids
    /\ nb_reg \in NbRegs
    /\ tab_reg = TabInit(nb_reg)
    /\ \E j \in JunkBytes : req = [p \in Byte |-> j]
    /\ wire = <<>> /\ rx = <<>>
    /\ pc = "idle"
    /\ step = _STEP_FUNCTION /\ length_to_read = 0 /\ req_index = 0 /\ function = 0
    /\ i = 0 /\ fi = 0 /\ flushCtx = "nfu"
    /\ rc = 0 /\ sent = <<>> /\ outcome = "none" /\ disp = NoDisp
    /\ nread = 0 /\ tabBefore = tab_reg /\ ghost = {}
    /\ nFrames = 0 /\ lastFrame = <<>> /\ foreignOnly = TRUE /\ cycleNo = 0
    /\ sentTotal = 0
    /\ de = 0 /\ io = <<>>

Init == InitFor(Stations)

---------------------------------------------------------------------------
(* The bus master and the line *)

\* the master sends frame f; it does so when the line is quiet and the
\* station has polled the quiet line since its last exchange
PutFrame(f, limit) ==
    /\ nFrames < limit
    /\ wire = <<>> /\ rx = <<>> /\ pc = "idle" /\ outcome = "none"
    /\ wire' = f
    /\ nFrames' = nFrames + 1
    /\ lastFrame' = f
    /\ foreignOnly' = (foreignOnly /\ f[1] # _slave /\ f[1] # MODBUS_BROADCAST_ADDRESS)
    /\ cycleNo' = 0
    /\ UNCHANGED <<rx, pc, recvVars, req, tab_reg, nb_reg, _slave, cycleVars, ghost>>

\* burst sizes in which the n bytes still on the wire may reach the UART
ArriveSizes(n) == {n} \cup (IF n <= MaxSlow THEN {1} ELSE {n - MaxSlow})

\* a saturated line: while the station is busy with a cycle, one more byte of
\* noise reaches the UART (what is left of it when the call returns starts
\* the next cycle)
Saturate(b) ==
    /\ wire = <<>> /\ pc # "idle"
    /\ Len(rx) < MaxNoise
    /\ sentTotal < MaxSent
    /\ rx' = Append(rx, b)
    /\ UNCHANGED <<wire, pc, recvVars, req, tab_reg, nb_reg, _slave, cycleVars, ghost,
                   masterVars, cycleNo>>

\* k more bytes reach the UART
Arrive(k) ==
    /\ k >= 1 /\ k <= Len(wire)
    /\ rx' = rx \o SubSeq(wire, 1, k)
    /\ wire' = SubSeq(wire, k + 1, Len(wire))
    /\ UNCHANGED <<pc, recvVars, req, tab_reg, nb_reg, _slave, cycleVars, ghost, masterVars,
                   cycleNo>>

---------------------------------------------------------------------------
(* Helpers of the station *)

\* check_integrity without the checksum test
check_integrity_NoCrc(buf, msg_length) ==
    IF msg_length >= 2 THEN msg_length ELSE -1

\* check_integrity(msg, msg_length); req_index is handed over as a uint8_t
check_integrity(buf, msg_length) ==
    IF msg_length >= 2 /\ crc16(BufTake(buf, msg_length)) = 0 THEN msg_length ELSE -1

\* build_response_basis: rsp[0], rsp[1]
build_response_basis(slave, fn) == <<slave, fn>>

\* response_exception: the function byte is function + 0x80 stored in a uint8_t
response_exception(slave, fn, exception_code) ==
    build_response_basis(slave, U8(fn + 128)) \o <<exception_code>>

\* what send_msg writes to the line for the msg_length bytes of msg.  The
\* checksum goes to msg[msg_length] and msg[msg_length + 1]; with 255 bytes
\* the second of them lies outside the 256-byte buffer.
send_msg(msg, u) ==
    IF Len(msg) + _MODBUS_RTU_CHECKSUM_LENGTH > _MODBUSINO_RTU_MAX_ADU_LENGTH /\ ~u.intact
    THEN msg \o <<CrcBytes(msg)[1], u.junk>>
    ELSE add_crc16(msg)

\* send_msg with the pin released before the write
DriverSequence_EarlyRelease(bytes) ==
    << [op |-> "pin", arg |-> 1], [op |-> "pin", arg |-> 0], [op |-> "write", arg |-> bytes] >>

\* send_msg: digitalWrite(_pin_DE, 1); Serial2.write(...); digitalWrite(_pin_DE, 0)
DriverSequence(bytes) ==
    << [op |-> "pin", arg |-> 1], [op |-> "write", arg |-> bytes], [op |-> "pin", arg |-> 0] >>

\* the calls made to send the frames out (reply sends one frame or none)
IoOf(out) == IF out = <<>> THEN <<>> ELSE DriverSequence(out[1])

\* level of the pin after calls, level being the one before
PinAfter(level, calls) ==
    IF \E k \in 1..Len(calls) : calls[k].op = "pin"
    THEN calls[CHOOSE k \in 1..Len(calls) :
                 /\ calls[k].op = "pin"
                 /\ \A j \in (k + 1)..Len(calls) : calls[j].op # "pin"].arg
    ELSE level

\* req[o] as reply reads it; the buffer has 256 bytes
ReqAt(buf, o, u) == IF o < _MODBUSINO_RTU_MAX_ADU_LENGTH THEN buf[o] ELSE u.junk

\* the bounds check with the sum computed in 16 bits
BoundsViolated_Wrap16(address, nb, nbr) == U16(address + nb) > nbr

\* reply: "(address + nb) > nb_reg", the sum computed in int
BoundsViolated(address, nb, nbr) == address + nb > nbr

\* tab_reg[r] as reply reads it; the table has nb_reg elements
TabAt(tab, r, u) == IF r \in DOMAIN tab THEN tab[r] ELSE 257 * u.junk

\* reply, read branch: the q-th byte (from 0) stored through rsp[rsp_length++]
ReadStored(slave, fn, address, nb, tab, q, u) ==
    IF q = 0 THEN slave
    ELSE IF q = 1 THEN fn
    ELSE IF q = 2 THEN U8(nb * 2)
    ELSE IF (q - 3) % 2 = 0 THEN TabAt(tab, address + (q - 3) \div 2, u) \div 256
    ELSE TabAt(tab, address + (q - 3) \div 2, u) % 256

\* number of bytes the read branch stores
ReadStoredCount(nb) == _MODBUS_RTU_PRESET_RSP_LENGTH + 1 + 2 * nb

\* reply, read branch: rsp[0 .. rsp_length - 1] when the loop ends; rsp_length
\* is a uint8_t, so the store after rsp[255] goes to rsp[0]
ReadResponse(slave, fn, address, nb, tab, u) ==
    LET n == ReadStoredCount(nb)
    IN  [p \in 1..U8(n) |->
            ReadStored(slave, fn, address, nb, tab,
                       (p - 1) + 256 * ((n - 1 - (p - 1)) \div 256), u)]

\* reply, write branch: offset in req of the high byte of the k-th value
\* (j is a uint16_t starting at 6)
WriteOffset(k) == _MODBUS_RTU_FUNCTION + U16(6 + 2 * k)

\* reply, write branch: the table after the loop
WriteTable(tab, address, nb, buf, u) ==
    [r \in DOMAIN tab |->
        IF r >= address /\ r < address + nb
        THEN U16(ReqAt(buf, WriteOffset(r - address), u) * 256
                 + ReqAt(buf, WriteOffset(r - address) + 1, u))
        ELSE tab[r]]

\* the acknowledgment with the copy taken one byte early
WriteResponse_OffByOne(slave, fn, buf) ==
    build_response_basis(slave, fn) \o <<buf[1], buf[2], buf[3], buf[4]>>

\* reply, write branch: the acknowledgment (memcpy of 4 request bytes)
WriteResponse(slave, fn, buf) ==
    build_response_basis(slave, fn) \o <<buf[2], buf[3], buf[4], buf[5]>>

\* reply(tab_reg, nb_reg, req, req_length, _slave): the table afterwards, the
\* frames written to the line and a record of the accesses made
reply(tab, nbr, buf, req_length, id, u) ==
    LET slave == buf[_MODBUS_RTU_SLAVE]
        fn == buf[_MODBUS_RTU_FUNCTION]
        address == U16(buf[_MODBUS_RTU_FUNCTION + 1] * 256 + buf[_MODBUS_RTU_FUNCTION + 2])
        nb == U16(buf[_MODBUS_RTU_FUNCTION + 3] * 256 + buf[_MODBUS_RTU_FUNCTION + 4])
        regs == address..(address + nb - 1)
        offs == UNION {{WriteOffset(k), WriteOffset(k) + 1} : k \in 0..(nb - 1)}
        d == [NoDisp EXCEPT !.run = TRUE, !.slave = slave, !.function = fn,
                            !.address = address, !.nb = nb]
    IN  IF slave # id /\ slave # MODBUS_BROADCAST_ADDRESS
        THEN [tab |-> tab, out |-> <<>>, disp |-> d]
        ELSE IF BoundsViolated(address, nb, nbr)
        THEN [tab |-> tab,
              out |-> <<send_msg(response_exception(slave, fn,
                                    MODBUS_EXCEPTION_ILLEGAL_DATA_ADDRESS), u)>>,
              disp |-> d]
        ELSE IF fn = _FC_READ_HOLDING_REGISTERS
        THEN [tab |-> tab,
              out |-> <<send_msg(ReadResponse(slave, fn, address, nb, tab, u), u)>>,
              disp |-> [d EXCEPT !.tabReads = regs,
                                 !.oob = (U8(ReadStoredCount(nb)) + _MODBUS_RTU_CHECKSUM_LENGTH
                                            > _MODBUSINO_RTU_MAX_ADU_LENGTH)]]
        ELSE [tab |-> WriteTable(tab, address, nb, buf, u),
              out |-> <<send_msg(WriteResponse(slave, fn, buf), u)>>,
              disp |-> [d EXCEPT !.tabWrites = regs, !.reqReads = offs,
                                 !.oob = (\E o \in offs : o >= _MODBUSINO_RTU_MAX_ADU_LENGTH)]]

---------------------------------------------------------------------------
(* SimpleModbusSlave::loop, receive and flush *)

\* loop calling reply whatever receive returned
ReplyRuns_Always(status) == TRUE

\* loop: "if (rc > 0)"
ReplyRuns(status) == status > 0

\* loop after receive has returned status with buf in req: reply is called
\* or not
Dispatch(status, buf, u) ==
    IF ReplyRuns(status)
    THEN reply(tab_reg, nb_reg, buf, U8(status), _slave, u)
    ELSE [tab |-> tab_reg, out |-> <<>>, disp |-> NoDisp]

\* loop with nothing available, rc keeping the status of the previous call
LoopIdle_StaleStatus ==
    /\ pc = "idle"
    /\ rx = <<>>
    /\ sent' = <<>> /\ outcome' = "none" /\ disp' = NoDisp
    /\ nread' = 0 /\ tabBefore' = tab_reg
    /\ io' = <<>>
    /\ UNCHANGED <<wire, rx, pc, recvVars, req, tab_reg, nb_reg, _slave, ghost,
                   masterVars, cycleNo, sentTotal, de, rc>>

\* loop with nothing available: "int rc = 0; ... return rc"
LoopIdle ==
    /\ pc = "idle"
    /\ rx = <<>>
    /\ rc' = 0
    /\ sent' = <<>> /\ outcome' = "none" /\ disp' = NoDisp
    /\ nread' = 0 /\ tabBefore' = tab_reg
    /\ io' = <<>>
    /\ UNCHANGED <<wire, rx, pc, recvVars, req, tab_reg, nb_reg, _slave, ghost,
                   masterVars, cycleNo, sentTotal, de>>

\* loop with bytes available: receive starts on the uninitialised buffer req
LoopBegin(u) ==
    /\ pc = "idle"
    /\ rx # <<>>
    /\ pc' = "recv"
    /\ step' = _STEP_FUNCTION
    /\ length_to_read' = _MODBUS_RTU_FUNCTION + 1
    /\ req_index' = 0
    /\ i' = 0
    /\ req' = IF u.intact THEN req ELSE [p \in Byte |-> u.junk]
    /\ ghost' = IF u.intact THEN ghost ELSE {}
    /\ rc' = 0
    /\ sent' = <<>> /\ outcome' = "none" /\ disp' = NoDisp
    /\ nread' = 0 /\ tabBefore' = tab_reg
    /\ cycleNo' = Min(cycleNo + 1, 2)
    /\ io' = <<>>
    /\ UNCHANGED <<wire, rx, function, fi, flushCtx, tab_reg, nb_reg, _slave,
                   masterVars, sentTotal, de>>

\* the address filter without the broadcast exemption
NotForUs_NoBroadcast(buf, id) == buf[_MODBUS_RTU_SLAVE] # id

\* receive, line 133 as compiled: the second operand is
\* req[_MODBUS_RTU_SLAVE != MODBUS_BROADCAST_ADDRESS] = req[0], tested for non-zero
NotForUs(buf, id) ==
    buf[_MODBUS_RTU_SLAVE] # id
    /\ buf[IF _MODBUS_RTU_SLAVE # MODBUS_BROADCAST_ADDRESS THEN 1 ELSE 0] # 0

\* receive, _STEP_FUNCTION: bytes of the header still to read; 0 = unsupported
HeaderLength(fn) ==
    IF fn = _FC_READ_HOLDING_REGISTERS THEN 4
    ELSE IF fn = _FC_WRITE_MULTIPLE_REGISTERS THEN 5
    ELSE 0

\* receive, _STEP_META: length_to_read (uint8_t) for the data and the checksum
MetaLength(fn, buf) ==
    U8(_MODBUS_RTU_CHECKSUM_LENGTH
       + (IF fn = _FC_WRITE_MULTIPLE_REGISTERS THEN buf[_MODBUS_RTU_FUNCTION + 5] ELSE 0))

\* receive, _STEP_META: "(req_index + length_to_read) > _MODBUSINO_RTU_MAX_ADU_LENGTH"
TooLong(idx, ltr) == idx + ltr > _MODBUSINO_RTU_MAX_ADU_LENGTH

\* receive with the function code examined before the address
AfterRead_FunctionFirst(buf, idx, ltr, st, fn, id) ==
    IF ltr # 0 THEN [kind |-> "more", step |-> st, ltr |-> ltr, fn |-> fn, ctx |-> "nfu"]
    ELSE IF st = _STEP_FUNCTION /\ HeaderLength(buf[_MODBUS_RTU_FUNCTION]) = 0
    THEN [kind |-> "flush", step |-> st, ltr |-> 0,
          fn |-> buf[_MODBUS_RTU_FUNCTION], ctx |-> "fn"]
    ELSE IF NotForUs(buf, id)
    THEN [kind |-> "flush", step |-> st, ltr |-> 0, fn |-> fn, ctx |-> "nfu"]
    ELSE IF st = _STEP_FUNCTION
    THEN [kind |-> "more", step |-> _STEP_META,
          ltr |-> HeaderLength(buf[_MODBUS_RTU_FUNCTION]),
          fn |-> buf[_MODBUS_RTU_FUNCTION], ctx |-> "nfu"]
    ELSE IF st = _STEP_META
    THEN IF TooLong(idx, MetaLength(fn, buf))
         THEN [kind |-> "flush", step |-> st, ltr |-> MetaLength(fn, buf), fn |-> fn,
               ctx |-> "dv"]
         ELSE [kind |-> IF MetaLength(fn, buf) = 0 THEN "finish" ELSE "more",
               step |-> _STEP_DATA, ltr |-> MetaLength(fn, buf), fn |-> fn, ctx |-> "nfu"]
    ELSE [kind |-> "finish", step |-> st, ltr |-> 0, fn |-> fn, ctx |-> "nfu"]

\* receive: what follows the bytes just stored.  kind is "more" (keep
\* reading), "flush" (a rejection) or "finish" (the while loop has ended)
AfterRead(buf, idx, ltr, st, fn, id) ==
    IF ltr # 0 THEN [kind |-> "more", step |-> st, ltr |-> ltr, fn |-> fn, ctx |-> "nfu"]
    ELSE IF NotForUs(buf, id)
    THEN [kind |-> "flush", step |-> st, ltr |-> 0, fn |-> fn, ctx |-> "nfu"]
    ELSE IF st = _STEP_FUNCTION
    THEN IF HeaderLength(buf[_MODBUS_RTU_FUNCTION]) # 0
         THEN [kind |-> "more", step |-> _STEP_META,
               ltr |-> HeaderLength(buf[_MODBUS_RTU_FUNCTION]),
               fn |-> buf[_MODBUS_RTU_FUNCTION], ctx |-> "nfu"]
         ELSE [kind |-> "flush", step |-> st, ltr |-> 0,
               fn |-> buf[_MODBUS_RTU_FUNCTION], ctx |-> "fn"]
    ELSE IF st = _STEP_META
    THEN IF TooLong(idx, MetaLength(fn, buf))
         THEN [kind |-> "flush", step |-> st, ltr |-> MetaLength(fn, buf), fn |-> fn,
               ctx |-> "dv"]
         ELSE [kind |-> IF MetaLength(fn, buf) = 0 THEN "finish" ELSE "more",
               step |-> _STEP_DATA, ltr |-> MetaLength(fn, buf), fn |-> fn, ctx |-> "nfu"]
    ELSE [kind |-> "finish", step |-> st, ltr |-> 0, fn |-> fn, ctx |-> "nfu"]

\* receive: the bytes available are stored into req, up to length_to_read of
\* them; when length_to_read reaches 0 the step is evaluated, and when the
\* loop ends check_integrity decides and loop calls reply
RecvRead(u) ==
    /\ pc = "recv"
    /\ rx # <<>>
    /\ \E n \in {Min(Len(rx), length_to_read)} :
       \E buf \in {[p \in Byte |-> IF p >= req_index /\ p < req_index + n
                                   THEN rx[p - req_index + 1] ELSE req[p]]} :
       \E idx \in {U8(req_index + n)} :
       \E a \in {AfterRead(buf, idx, length_to_read - n, step, function, _slave)} :
           /\ rx' = SubSeq(rx, n + 1, Len(rx))
           /\ req' = buf
           /\ req_index' = idx
           /\ nread' = nread + n
           /\ ghost' = ghost \ (req_index..(req_index + n - 1))
           /\ i' = 0
           /\ step' = a.step /\ length_to_read' = a.ltr /\ function' = a.fn
           /\ IF a.kind = "more"
              THEN /\ pc' = "recv"
                   /\ UNCHANGED <<fi, flushCtx, tab_reg, rc, sent, outcome, disp, sentTotal,
                                  de, io>>
              ELSE IF a.kind = "flush"
              THEN /\ pc' = "flush" /\ fi' = 0 /\ flushCtx' = a.ctx
                   /\ UNCHANGED <<tab_reg, rc, sent, outcome, disp, sentTotal, de, io>>
              ELSE \E rcv \in {check_integrity(buf, idx)} :
                   \E rep \in {Dispatch(rcv, buf, u)} :
                       /\ pc' = "idle"
                       /\ rc' = rcv
                       /\ UNCHANGED <<fi, flushCtx>>
                       /\ tab_reg' = rep.tab
                       /\ sent' = sent \o rep.out
                       /\ sentTotal' = sentTotal + Len(rep.out)
                       /\ io' = io \o IoOf(rep.out)
                       /\ de' = PinAfter(de, IoOf(rep.out))
                       /\ disp' = rep.disp
                       /\ outcome' = IF rcv > 0 THEN "dispatched" ELSE "rejected"
    /\ UNCHANGED <<wire, nb_reg, _slave, tabBefore, masterVars, cycleNo>>

\* receive: the per-byte wait runs out.  Nothing becomes available during
\* RX_POLL_LIMIT polls in a row, and "++i == 10" returns the timeout status
\* (a byte arriving between two polls is an Arrive before the next RecvRead)
RecvWait ==
    /\ pc = "recv"
    /\ rx = <<>>
    /\ i' = RX_POLL_LIMIT
    /\ pc' = "idle"
    /\ outcome' = "timeout"
    /\ ghost' = ghost \cup (0..(req_index - 1))
    /\ \E status \in {-1 - MODBUS_INFORMATIVE_RX_TIMEOUT} :
       \E rep \in {Dispatch(status, req, [intact |-> TRUE, junk |-> 0])} :
           /\ rc' = status
           /\ tab_reg' = rep.tab
           /\ sent' = sent \o rep.out
           /\ sentTotal' = sentTotal + Len(rep.out)
           /\ io' = io \o IoOf(rep.out)
           /\ de' = PinAfter(de, IoOf(rep.out))
           /\ disp' = rep.disp
    /\ UNCHANGED <<wire, rx, step, length_to_read, req_index, function, fi, flushCtx, req,
                   nb_reg, _slave, nread, tabBefore, masterVars, cycleNo>>

\* the loop of flush without its iteration bound
FlushContinues_Unbounded(available, n) == available

\* flush: "while (Serial2.available() && i++ < 10)"
FlushContinues(available, n) == available /\ n < FLUSH_LIMIT

\* flush: one iteration of the loop (Serial2.flush discards what is buffered);
\* i is a uint8_t
FlushDrain ==
    /\ pc = "flush"
    /\ FlushContinues(rx # <<>>, fi)
    /\ rx' = <<>>
    /\ fi' = U8(fi + 1)
    /\ UNCHANGED <<wire, pc, step, length_to_read, req_index, function, i, flushCtx, req,
                   tab_reg, nb_reg, _slave, cycleVars, ghost, masterVars, cycleNo>>

\* status receive returns after sending the exception of a flush context
ExceptionStatus(ctx) ==
    IF ctx = "fn" THEN -1 - MODBUS_EXCEPTION_ILLEGAL_FUNCTION
    ELSE -1 - MODBUS_EXCEPTION_ILLEGAL_FUNCTION

\* exception code receive sends for a flush context
ExceptionCode(ctx) ==
    IF ctx = "fn" THEN MODBUS_EXCEPTION_ILLEGAL_FUNCTION
    ELSE MODBUS_EXCEPTION_ILLEGAL_DATA_VALUE

\* flush returns and receive goes on after it: the return of line 135, or the
\* exception built in req and sent (lines 149-156 and 170-176)
FlushEnd(u) ==
    /\ pc = "flush"
    /\ ~FlushContinues(rx # <<>>, fi)
    /\ pc' = "idle"
    /\ \E r \in {IF flushCtx = "nfu"
                  THEN [status |-> -1 - MODBUS_INFORMATIVE_NOT_FOR_US, outcome |-> "nfu",
                        msgs |-> <<>>]
                  ELSE IF req[_MODBUS_RTU_SLAVE] = _slave
                          \/ req[_MODBUS_RTU_SLAVE] = MODBUS_BROADCAST_ADDRESS
                  THEN [status |-> ExceptionStatus(flushCtx), outcome |-> flushCtx,
                        msgs |-> <<send_msg(response_exception(_slave, function,
                                                               ExceptionCode(flushCtx)), u)>>]
                  ELSE [status |-> -1, outcome |-> "generic", msgs |-> <<>>]} :
       \E buf \in {IF r.msgs = <<>> THEN req
                    ELSE [p \in Byte |-> IF p < Len(r.msgs[1]) THEN r.msgs[1][p + 1]
                                         ELSE req[p]]} :
       \E rep \in {Dispatch(r.status, buf, u)} :
           /\ req' = buf
           /\ ghost' = IF r.msgs = <<>> THEN ghost ELSE ghost \ (0..(Len(r.msgs[1]) - 1))
           /\ rc' = r.status
           /\ outcome' = r.outcome
           /\ tab_reg' = rep.tab
           /\ sent' = sent \o r.msgs \o rep.out
           /\ sentTotal' = sentTotal + Len(r.msgs) + Len(rep.out)
           /\ io' = io \o IoOf(r.msgs) \o IoOf(rep.out)
           /\ de' = PinAfter(de, IoOf(r.msgs) \o IoOf(rep.out))
           /\ disp' = rep.disp
    /\ UNCHANGED <<wire, rx, recvVars, nb_reg, _slave, nread, tabBefore, masterVars,
                   cycleNo>>

---------------------------------------------------------------------------

Station ==
    \/ LoopIdle
    \/ \E u \in UbOutcomes : LoopBegin(u)
    \/ \E u \in UbOutcomes : RecvRead(u)
    \/ RecvWait
    \/ FlushDrain
    \/ \E u \in UbOutcomes : FlushEnd(u)

Line == \E k \in ArriveSizes(Len(wire)) : Arrive(k)

\* one exchange: the master sends MaxFrames frames
Next ==
    \/ \E f \in FrameMenu[_slave] : PutFrame(f, MaxFrames)
    \/ Line
    \/ Station

Spec == Init /\ [][Next]_vars

\* the master sends further frames after the first exchange
NextSeq ==
    \/ \E f \in FrameMenu[_slave] : PutFrame(f, MaxFrames + MaxRetries)
    \/ Line
    \/ Station

SpecSeq == Init /\ [][NextSeq]_vars

\* a single frame of the master on a line that is then saturated with noise;
\* the station's code keeps running
NextLive ==
    \/ \E f \in LiveMenu[_slave] : PutFrame(f, 1)
    \/ Line
    \/ \E b \in NoiseBytes : Saturate(b)
    \/ Station

\* one exchange, the frame being a write request of any byte count
NextCount ==
    \/ \E f \in CountMenu[_slave] : PutFrame(f, MaxFrames)
    \/ Line
    \/ Station

SpecCount == Init /\ [][NextCount]_vars

\* one exchange, the frame being addressed to another station
NextForeign ==
    \/ \E f \in ForeignMenu[_slave] : PutFrame(f, MaxFrames)
    \/ Line
    \/ Station

SpecForeign == Init /\ [][NextForeign]_vars

\* one exchange with a station of any of the identities StationIds
InitIds == InitFor(StationIds)

NextIds ==
    \/ \E f \in AddressMenu[_slave] : PutFrame(f, MaxFrames)
    \/ Line
    \/ Station

SpecIds == InitIds /\ [][NextIds]_vars

SpecLive == Init /\ [][NextLive]_vars /\ WF_vars(Station)

---------------------------------------------------------------------------
(* Properties *)

\* a call of loop has returned
Returned == pc = "idle"

\* reply ran in the cycle that has returned, on a frame it does not ignore
Dispatched ==
    /\ Returned /\ disp.run
    /\ disp.slave = _slave \/ disp.slave = MODBUS_BROADCAST_ADDRESS

\* the cycle that has returned read the master's last frame from its first byte
ReceivedLast == Returned /\ nFrames > 0 /\ cycleNo = 1 /\ nread > 0

\* ... and read all of it
ReceivedAllOfLast == ReceivedLast /\ nread = Len(lastFrame)

\* a frame without its two checksum bytes
Body(f) == SubSeq(f, 1, Len(f) - _MODBUS_RTU_CHECKSUM_LENGTH)

\* the verified request of the cycle: rc bytes of req
Request == BufTake(req, rc)

\* registers start .. start + count - 1 of tab, high byte then low byte
RegisterBytes(tab, start, count) ==
    [k \in 1..(2 * count) |->
        IF k % 2 = 1 THEN tab[start + (k - 1) \div 2] \div 256
        ELSE tab[start + (k - 1) \div 2] % 256]

\* C1: a read request accepted and addressed to the station, with
\* start + count <= registerCount, is answered by exactly
\* [address, 0x03, 2 * count, data...], data being the registers
\* start .. start + count - 1 in ascending order, high byte then low byte.
C1_ReadResponseExact ==
    (Dispatched /\ disp.slave = _slave /\ disp.function = _FC_READ_HOLDING_REGISTERS
        /\ disp.address + disp.nb <= nb_reg)
    => /\ Len(sent) = 1
       /\ Body(sent[1]) = <<disp.slave, _FC_READ_HOLDING_REGISTERS, 2 * disp.nb>>
                          \o RegisterBytes(tabBefore, disp.address, disp.nb)

\* C2: after an accepted write request with start + count <= registerCount,
\* table[start + k] is the big-endian value of the request bytes at offsets
\* 7 + 2k and 8 + 2k for every k < count, and every other index is unchanged.
C2_WriteStoresRequestBytes ==
    (Dispatched /\ disp.function = _FC_WRITE_MULTIPLE_REGISTERS
        /\ disp.address + disp.nb <= nb_reg)
    => /\ \A k \in 0..(disp.nb - 1) :
            /\ 8 + 2 * k < Len(Request)
            /\ tab_reg[disp.address + k]
                 = 256 * Request[7 + 2 * k + 1] + Request[8 + 2 * k + 1]
       /\ \A r \in DOMAIN tab_reg :
            (r < disp.address \/ r >= disp.address + disp.nb) => tab_reg[r] = tabBefore[r]

\* C11: every call of loop returns, whatever the line does: a per-byte wait
\* ends within RX_POLL_LIMIT polls, the flush within FLUSH_LIMIT iterations,
\* and a cycle reads at most an ADU of bytes.
C11_LoopReturns ==
    /\ [](i <= RX_POLL_LIMIT /\ fi <= FLUSH_LIMIT
          /\ nread <= _MODBUSINO_RTU_MAX_ADU_LENGTH)
    /\ (pc # "idle") ~> (pc = "idle")

\* the flush of a saturated line has ended at its iteration bound, and the
\* call has returned
C11_Witness ==
    /\ Returned /\ fi = FLUSH_LIMIT /\ rx # <<>> /\ outcome \in {"nfu", "fn", "dv"}

\* C12: a frame addressed to broadcast (0) is never rejected as not for this
\* station, whatever the identity, and it is dispatched like the same frame
\* addressed to the station: the same table reads and writes, and a response
\* is transmitted.
C12_BroadcastAsUnicast ==
    /\ (ReceivedLast /\ nread >= 2 /\ lastFrame[1] = MODBUS_BROADCAST_ADDRESS)
       => outcome # "nfu"
    /\ (ReceivedAllOfLast /\ lastFrame[1] = MODBUS_BROADCAST_ADDRESS /\ rc > 0)
       => /\ disp.run /\ Len(sent) = 1
          /\ \E u \in UbOutcomes :
               \E twin \in {reply(tabBefore, nb_reg, [req EXCEPT ![_MODBUS_RTU_SLAVE] = _slave],
                                   U8(rc), _slave, u)} :
                  /\ tab_reg = twin.tab
                  /\ disp.tabReads = twin.disp.tabReads
                  /\ disp.tabWrites = twin.disp.tabWrites
                  /\ Len(twin.out) = 1
                  /\ Len(sent[1]) = Len(twin.out[1])
                  /\ \A p \in 2..(Len(sent[1]) - _MODBUS_RTU_CHECKSUM_LENGTH) :
                        sent[1][p] = twin.out[1][p]

\* a station of identity 247 has stored the registers of a broadcast write
\* and answered it
C12_Witness ==
    /\ ReceivedAllOfLast /\ lastFrame[1] = MODBUS_BROADCAST_ADDRESS /\ rc > 0
    /\ _slave = 247
    /\ disp.tabWrites # {} /\ tab_reg # tabBefore /\ Len(sent) = 1

\* C13: loop called while no byte is available returns 0 at once: it reads
\* no byte, transmits nothing, leaves the driver-enable pin alone and does not
\* change the register table.
C13_IdlePollDoesNothing ==
    [][(pc = "idle" /\ rx = <<>> /\ wire' = wire)
         => /\ pc' = "idle" /\ rc' = 0
            /\ rx' = rx /\ nread' = 0 /\ req' = req
            /\ sent' = <<>> /\ sentTotal' = sentTotal
            /\ io' = <<>> /\ de' = de
            /\ tab_reg' = tab_reg]_vars

\* an idle poll has returned 0 after a cycle that stored registers and
\* answered
C13_Witness ==
    /\ Returned /\ outcome = "none" /\ rc = 0 /\ rx = <<>>
    /\ sentTotal > 0 /\ tab_reg # TabInit(nb_reg)
    /\ io = <<>> /\ sent = <<>>

\* C18: in every transmission the driver-enable pin is asserted before the
\* first response byte is written and released after the last one; it is
\* released whenever loop has returned and while receive reads bytes.
C18_DriverEnableSequencing ==
    /\ \A k \in 1..Len(io) :
          io[k].op = "write"
          => /\ k > 1 /\ io[k - 1] = [op |-> "pin", arg |-> 1]
             /\ k < Len(io) /\ io[k + 1] = [op |-> "pin", arg |-> 0]
    /\ pc \in {"idle", "recv"} => de = 0

\* a response has been written between an assertion and a release of the pin
C18_Witness ==
    /\ Returned /\ Len(sent) = 1 /\ Len(io) = 3
    /\ io[2] = [op |-> "write", arg |-> sent[1]]
    /\ de = 0

\* C14: a write-request header addressed to the station, for every byte count:
\* if 7 + 2 + byte count exceeds 256, receive reads no payload byte, flushes,
\* transmits [identity, 0x90, 3] plus checksum and accepts no frame; otherwise
\* it waits for exactly 2 + byte count further bytes.
C14_ByteCountLength ==
    /\ (ReceivedLast /\ nread >= 7
          /\ lastFrame[1] = _slave /\ lastFrame[2] = _FC_WRITE_MULTIPLE_REGISTERS
          /\ 7 + _MODBUS_RTU_CHECKSUM_LENGTH + lastFrame[7] > _MODBUSINO_RTU_MAX_ADU_LENGTH)
       => /\ nread = 7
          /\ outcome = "dv"
          /\ sent = <<add_crc16(<<_slave, 144, MODBUS_EXCEPTION_ILLEGAL_DATA_VALUE>>)>>
          /\ rc < 0 /\ ~disp.run
    /\ (pc = "recv" /\ nFrames > 0 /\ cycleNo = 1 /\ nread = 7
          /\ lastFrame[1] = _slave /\ lastFrame[2] = _FC_WRITE_MULTIPLE_REGISTERS)
       => length_to_read = _MODBUS_RTU_CHECKSUM_LENGTH + lastFrame[7]

\* C15: once the first two bytes of a frame are read and its address is
\* neither the identity nor 0, whatever the function code: receive reads no
\* further byte, flushes the line, nothing is transmitted and the cycle
\* returns the not-for-this-station status.
C15_ForeignRejectedAtHeader ==
    /\ (nFrames > 0 /\ cycleNo = 1 /\ nread >= 2
          /\ lastFrame[1] # _slave /\ lastFrame[1] # MODBUS_BROADCAST_ADDRESS)
       => /\ nread = 2
          /\ pc = "flush" \/ (Returned /\ outcome = "nfu")
          /\ sent = <<>> /\ io = <<>> /\ tab_reg = tabBefore /\ ~disp.run
    /\ (ReceivedLast /\ nread >= 2
          /\ lastFrame[1] # _slave /\ lastFrame[1] # MODBUS_BROADCAST_ADDRESS)
       => rc = -1 - MODBUS_INFORMATIVE_NOT_FOR_US

\* a frame for another station with an unsupported function code has been
\* dropped after its second byte and the line flushed
C15_Witness ==
    /\ ReceivedLast /\ nread = 2
    /\ lastFrame[1] = ForeignAddress(_slave)
    /\ lastFrame[2] \notin {_FC_READ_HOLDING_REGISTERS, _FC_WRITE_MULTIPLE_REGISTERS}
    /\ fi > 0 /\ outcome = "nfu" /\ sent = <<>>

\* C16: an accepted write request with start + count <= registerCount is
\* answered by exactly [request address, 0x10, request bytes 2..5] plus
\* checksum: start and count copied from the request, no register data.
C16_WriteAcknowledgment ==
    (Dispatched /\ disp.function = _FC_WRITE_MULTIPLE_REGISTERS
        /\ disp.address + disp.nb <= nb_reg)
    => sent = <<add_crc16(<<req[0], _FC_WRITE_MULTIPLE_REGISTERS,
                            req[2], req[3], req[4], req[5]>>)>>

\* the write of two registers at 1 has been acknowledged with 8 bytes
C16_Witness ==
    /\ Dispatched /\ ReceivedAllOfLast
    /\ lastFrame = WriteReq(_slave, 1, 2, 4, <<18, 52, 171, 205>>)
    /\ sent = <<add_crc16(<<_slave, 16, 0, 1, 0, 2>>)>>
    /\ tab_reg[1] = 4660

\* C17: a cycle transmits at most one response: a cycle in which receive
\* sent an exception does not run the dispatcher, and a cycle in which the
\* dispatcher runs on a frame for the station or for broadcast transmits
\* exactly one.
C17_OneResponsePerCycle ==
    /\ Len(sent) <= 1
    /\ (Returned /\ outcome \in {"fn", "dv"}) => (Len(sent) = 1 /\ ~disp.run)
    /\ Dispatched => Len(sent) = 1

\* an illegal-function exception has been the only transmission of its cycle
C17_Witness ==
    /\ Returned /\ outcome = "fn" /\ Len(sent) = 1 /\ ~disp.run /\ rc < 0

\* number of bytes reply stores into rsp for the request it has dispatched
BuiltLength ==
    IF disp.address + disp.nb > nb_reg THEN _MODBUS_RTU_PRESET_RSP_LENGTH + 1
    ELSE IF disp.function = _FC_READ_HOLDING_REGISTERS THEN ReadStoredCount(disp.nb)
    ELSE _MODBUS_RTU_PRESET_RSP_LENGTH + 4

\* C19: for every accepted request the response reply builds, with the two
\* checksum bytes send_msg appends, fits the 256-byte buffer, and the length
\* handed to the transport is the number of bytes built (the 8-bit response
\* length does not wrap).
C19_ResponseFitsBuffer ==
    Dispatched
    => /\ BuiltLength + _MODBUS_RTU_CHECKSUM_LENGTH <= _MODBUSINO_RTU_MAX_ADU_LENGTH
       /\ Len(sent) = 1
       /\ Len(sent[1]) = BuiltLength + _MODBUS_RTU_CHECKSUM_LENGTH

\* C20: every request byte an accepted write request makes the dispatcher
\* decode into the table lies below the verified frame length minus the two
\* checksum bytes.
C20_WriteReadsWithinPayload ==
    (Dispatched /\ disp.function = _FC_WRITE_MULTIPLE_REGISTERS
        /\ disp.address + disp.nb <= nb_reg)
    => \A o \in disp.reqReads : o < rc - _MODBUS_RTU_CHECKSUM_LENGTH

\* C3: an accepted request with start + count > registerCount (no wrap-around
\* in the sum) makes the dispatcher touch no table element and transmit
\* exactly [address, function | 0x80, 2] plus checksum.
C3_OutOfRangeRejected ==
    (Dispatched /\ disp.address + disp.nb > nb_reg)
    => /\ disp.tabReads = {} /\ disp.tabWrites = {}
       /\ tab_reg = tabBefore
       /\ sent = <<add_crc16(<<disp.slave, OrHighBit(disp.function),
                               MODBUS_EXCEPTION_ILLEGAL_DATA_ADDRESS>>)>>

\* C3 happens with a sum that does not fit 16 bits
C3_Witness ==
    /\ Dispatched /\ disp.address + disp.nb > 65535
    /\ Len(sent) = 1 /\ disp.tabReads = {}

\* C4: frames addressed to another station (neither the identity nor 0) never
\* cause a response, under every arrival timing and over any number of cycles.
C4_NoResponseToForeign ==
    foreignOnly => sentTotal = 0

\* C5: a frame addressed to the station or to broadcast whose checksum does
\* not validate, whatever its function code and length fields: the cycle that
\* receives it transmits nothing and returns -1.
C5_BadChecksumSilent ==
    (ReceivedLast /\ nread >= 2
        /\ (lastFrame[1] = _slave \/ lastFrame[1] = MODBUS_BROADCAST_ADDRESS)
        /\ crc16(lastFrame) # 0
        /\ outcome # "timeout")
    => (sent = <<>> /\ rc = -1)

\* the frame is a read or a write request that is as long as it announces,
\* and no longer than an ADU
WellSized(f) ==
    /\ Len(f) >= 8
    /\ f[2] \in {_FC_READ_HOLDING_REGISTERS, _FC_WRITE_MULTIPLE_REGISTERS}
    /\ DeclaredLength(f) = Len(f)
    /\ Len(f) <= _MODBUSINO_RTU_MAX_ADU_LENGTH

\* C5 as amended: ... with function 0x03 or 0x10, as long as it announces (at
\* most 256 bytes) and read completely by the cycle: nothing is transmitted
\* and the cycle returns -1.
C5_BadChecksumSilent_Sized ==
    (ReceivedAllOfLast
        /\ (lastFrame[1] = _slave \/ lastFrame[1] = MODBUS_BROADCAST_ADDRESS)
        /\ WellSized(lastFrame)
        /\ crc16(lastFrame) # 0)
    => (sent = <<>> /\ rc = -1)

\* a corrupted write request has been read completely and rejected
C5_Witness ==
    /\ ReceivedAllOfLast
    /\ lastFrame[1] = _slave
    /\ WellSized(lastFrame) /\ lastFrame[2] = _FC_WRITE_MULTIPLE_REGISTERS
    /\ crc16(lastFrame) # 0
    /\ rc = -1 /\ sent = <<>>

\* C6: first two bytes [station identity, f] with f other than 0x03 and 0x10:
\* the station transmits exactly [identity, f | 0x80, 1] plus checksum and the
\* cycle returns the illegal-function status.
C6_IllegalFunctionResponse ==
    (ReceivedLast /\ nread = 2 /\ lastFrame[1] = _slave
        /\ lastFrame[2] \notin {_FC_READ_HOLDING_REGISTERS, _FC_WRITE_MULTIPLE_REGISTERS})
    => /\ sent = <<add_crc16(<<_slave, OrHighBit(lastFrame[2]),
                               MODBUS_EXCEPTION_ILLEGAL_FUNCTION>>)>>
       /\ rc = -1 - MODBUS_EXCEPTION_ILLEGAL_FUNCTION

\* C7: a well-formed request addressed to the station (8 bytes, or 9 + byte
\* count bytes, at most 256) with a valid checksum, all of whose bytes arrive
\* in time, is accepted and receive returns the number of bytes consumed.
C7_RoundTrip ==
    (ReceivedAllOfLast /\ lastFrame[1] = _slave
        /\ WellSized(lastFrame)
        /\ crc16(lastFrame) = 0)
    => rc = Len(lastFrame)

\* C8: a cycle that sends an Illegal-Data-Address exception returns the
\* negative illegal-data-address status, not a positive one.
C8_DataAddressStatus ==
    (Dispatched /\ disp.address + disp.nb > nb_reg /\ Len(sent) = 1)
    => (rc < 0 /\ rc = -1 - MODBUS_EXCEPTION_ILLEGAL_DATA_ADDRESS)

\* C9: a cycle that sends an Illegal-Data-Value exception returns the
\* illegal-data-value status, which is not the illegal-function status; the
\* statuses of generic error, illegal function, illegal data value,
\* not-for-this-station and timeout are pairwise distinct.
C9_DataValueStatus ==
    (Returned /\ outcome = "dv")
    => /\ rc = -1 - MODBUS_EXCEPTION_ILLEGAL_DATA_VALUE
       /\ rc # -1 - MODBUS_EXCEPTION_ILLEGAL_FUNCTION
       /\ Cardinality({-1, ExceptionStatus("fn"), ExceptionStatus("dv"),
                       -1 - MODBUS_INFORMATIVE_NOT_FOR_US,
                       -1 - MODBUS_INFORMATIVE_RX_TIMEOUT}) = 5

\* C10: a per-byte wait that runs out inside a frame makes the cycle return
\* the timeout status, transmit nothing and leave the table unchanged, and the
\* bytes received so far reach the dispatcher neither in this cycle nor later.
C10_TimeoutDiscardsPartial ==
    /\ (Returned /\ outcome = "timeout")
       => /\ rc = -1 - MODBUS_INFORMATIVE_RX_TIMEOUT
          /\ sent = <<>> /\ tab_reg = tabBefore /\ ~disp.run
    /\ disp.run => disp.reqReads \cap ghost = {}

====
